---- MODULE Spec2Model ----
(***************************************************************************)
(* A model of src/train.py: the training controller of a forward/reverse   *)
(* translation model pair (main), one epoch of training and one validation *)
(* pass (the batch loops of main and validate), the derivation of the      *)
(* reverse model's inputs from a batch, and the normalisation of the       *)
(* alignment regulariser (get_diff.calculate_diff).                        *)
(*                                                                         *)
(* Numbers.  Perplexities are integers (the scenario of the early-stopping *)
(* test is written in tenths: 5.0 is 50); float('inf') is Inf, a value     *)
(* above every perplexity, so that < on integers orders it as Python       *)
(* orders floats.  Losses and running statistics are exact fractions       *)
(* <<numerator, denominator>> in lowest terms.                             *)
(***************************************************************************)
EXTENDS Integers, Sequences, FiniteSets, TLC

(***************************************************************************)
(* Bounds of the model.                                                    *)
(***************************************************************************)
MaxEpoch == 4
MaxPatience == 2
MaxInterval == 2
MaxPpl == 3
MaxCkptEpoch == 1
MaxRounds == 2
MaxBatches == 2
MaxValidBatches == 2
MaxSeqs == 2
MaxCE == 4
MaxB == 2
MaxS == 3
MaxT == 2
MaxTok == 2
MaxDiffB == 2
MaxN == 2
MaxM == 2
MaxH == 1

\* float('inf'), the initial best_validate
Inf == 1000000

VARIABLES
    \* ---- the training controller (main) ----
    pc,               \* position of main: load, train, validate, save, check, exit
    state,            \* RUNNING, EARLY_STOPPED or MAX_EPOCH_REACHED
    disk,             \* the checkpoint file present when the process starts
    state_dict,       \* what utils.load_checkpoint returned
    max_epoch,        \* args.max_epoch
    patience,         \* args.patience
    save_interval,    \* args.save_interval
    last_epoch,
    epoch,
    best_validate,
    bad_epochs,
    valid_perplexity,
    valid_feed,       \* perplexities the validator will return (<<>>: any)
    hist,             \* perplexities the validator returned in this run
    ran,              \* epoch numbers the loop has entered, in order
    saves,            \* calls of utils.save_checkpoint: <<epoch, perplexity>>
    \* ---- one epoch of training and one validation pass ----
    tpc,              \* position in the batch loops of main and validate
    rounds,           \* epochs started
    n_batches,        \* len(progress_bar): batches the train loader delivers
    fetched,          \* batches delivered so far in this epoch or pass
    sample,           \* the current batch
    loss,             \* the current batch's loss
    ops,              \* operations done on the current training batch
    params,           \* version of each model's parameters
    grads,            \* state of each model's gradients
    opt_steps,        \* calls of optimizer.step()
    nonempty,         \* non-empty training batches delivered
    stats,            \* the trainer's running statistics
    logged,           \* the averages logged at the end of the epoch
    vstats,           \* the validator's statistics
    mode,             \* train or eval mode of both models
    \* ---- the reverse model's inputs, derived from a batch ----
    sh_pc,            \* batch, trained (main derived them) or validated
    batch,            \* src_tokens [B, S], src_lengths [B], tgt_inputs' length
    batch_before,     \* the batch as the loader delivered it
    src_inputs,       \* the reverse model's decoder input
    tgt_lengths,      \* the reverse model's source lengths
    \* ---- the regulariser's normalisation (calculate_diff) ----
    df_pc,            \* args or returned
    acontext,         \* [B, n, H]
    src_out_other,    \* [B, m, H]
    result            \* what calculate_diff computed

ctl_vars == <<pc, state, disk, state_dict, max_epoch, patience, save_interval,
              last_epoch, epoch, best_validate, bad_epochs, valid_perplexity,
              valid_feed, hist, ran, saves>>

trn_vars == <<tpc, rounds, n_batches, fetched, sample, loss, ops, params,
              grads, opt_steps, nonempty, stats, logged, vstats, mode>>

sh_vars == <<sh_pc, batch, batch_before, src_inputs, tgt_lengths>>

df_vars == <<df_pc, acontext, src_out_other, result>>

vars == <<ctl_vars, trn_vars, sh_vars, df_vars>>

(***************************************************************************)
(* Exact fractions <<numerator, denominator>>, numerator >= 0 and          *)
(* denominator > 0, in lowest terms: the values of Python's true division. *)
(***************************************************************************)
RECURSIVE GCD(_, _)
GCD(a, b) == IF b = 0 THEN a ELSE GCD(b, a % b)

Frac(n, d) == LET g == GCD(n, d) IN <<n \div g, d \div g>>
FracOf(k) == <<k, 1>>
FAdd(x, y) == Frac(x[1] * y[2] + y[1] * x[2], x[2] * y[2])
FSub(x, y) == Frac(x[1] * y[2] - y[1] * x[2], x[2] * y[2])
FMul(x, k) == Frac(x[1] * k, x[2])
FDiv(x, k) == Frac(x[1], x[2] * k)

(***************************************************************************)
(* Each specification below drives one part of the program; the variables  *)
(* of the other parts rest at these values.                                *)
(***************************************************************************)
NoSample ==
    [empty |-> TRUE, n_seq |-> 0, num_tokens |-> 0, ce |-> 0, ce_rev |-> 0,
     d |-> 0, d_rev |-> 0, grad_norm |-> 0]

ZeroStats ==
    [loss |-> FracOf(0), lr |-> FracOf(0), num_tokens |-> FracOf(0),
     batch_size |-> FracOf(0), grad_norm |-> FracOf(0), clip |-> FracOf(0)]

ZeroValidStats == [valid_loss |-> FracOf(0), num_tokens |-> 0, batch_size |-> 0]

TrnIdle ==
    /\ tpc = "idle"
    /\ rounds = 0
    /\ n_batches = 0
    /\ fetched = <<>>
    /\ sample = NoSample
    /\ loss = FracOf(0)
    /\ ops = <<>>
    /\ params = [model |-> 0, model_rev |-> 0]
    /\ grads = [model |-> "none", model_rev |-> "none"]
    /\ opt_steps = 0
    /\ nonempty = 0
    /\ stats = ZeroStats
    /\ logged = ZeroStats
    /\ vstats = ZeroValidStats
    /\ mode = "train"

NoBatch == [src_tokens |-> <<>>, src_lengths |-> <<>>, tgt_len |-> 0]

ShIdle ==
    /\ sh_pc = "idle"
    /\ batch = NoBatch
    /\ batch_before = NoBatch
    /\ src_inputs = <<>>
    /\ tgt_lengths = <<>>

NoResult ==
    [numerator |-> FracOf(0), numerator_len |-> 0, denominator_sum |-> 0,
     denominator_len |-> 0, d |-> [kind |-> "num", val |-> FracOf(0)]]

DfIdle ==
    /\ df_pc = "idle"
    /\ acontext = <<>>
    /\ src_out_other = <<>>
    /\ result = NoResult

CtlIdle ==
    /\ pc = "idle"
    /\ state = "RUNNING"
    /\ disk = [present |-> FALSE, last_epoch |-> -1, best |-> Inf]
    /\ state_dict = disk
    /\ max_epoch = 0
    /\ patience = 0
    /\ save_interval = 1
    /\ last_epoch = -1
    /\ epoch = -1
    /\ best_validate = Inf
    /\ bad_epochs = 0
    /\ valid_perplexity = Inf
    /\ valid_feed = <<>>
    /\ hist = <<>>
    /\ ran = <<>>
    /\ saves = <<>>

(***************************************************************************)
(* The training controller: main, lines 123-241.                           *)
(***************************************************************************)

\* The validation perplexities of the early-stopping scenario, in tenths.
ScenarioPerplexities == <<50, 40, 42, 43, 44, 45>>

\* What the validator can return: a finite perplexity, or inf (np.exp overflow).
Perplexities == (1..MaxPpl) \cup {Inf}

NoCheckpoint == [present |-> FALSE, last_epoch |-> -1, best |-> Inf]

\* A checkpoint file saved at epoch e with best metric m.
Checkpoints ==
    [present : {TRUE}, last_epoch : 0..MaxCkptEpoch, best : 1..MaxPpl]

\* utils.load_checkpoint: the saved state, or None when there is no file.
load_checkpoint(file) == file

\* last_epoch = state_dict['last_epoch'] if state_dict is not None else -1
LastEpochOf(sd) == IF sd.present THEN sd.last_epoch ELSE -1

\* range(last_epoch + 1, args.max_epoch): the epochs still to run
EpochRange_from_last(le, me) == le..(me - 1)
EpochRange(le, me) == (le + 1)..(me - 1)

\* valid_perplexity < best_validate
Improved_or_equal(p, best) == p <= best
Improved(p, best) == p < best

\* bad_epochs >= args.patience
ShouldStop_strict(bad, pat) == bad > pat
ShouldStop(bad, pat) == bad >= pat

\* epoch % args.save_interval == 0
SaveDue_every_epoch(e, k) == TRUE
SaveDue(e, k) == e % k = 0

CtlInit ==
    /\ TrnIdle
    /\ ShIdle
    /\ DfIdle
    /\ pc = "load"
    /\ state = "RUNNING"
    /\ valid_feed \in {<<>>, ScenarioPerplexities}
    /\ IF valid_feed = <<>>
       THEN /\ disk \in {NoCheckpoint} \cup Checkpoints
            /\ max_epoch \in 0..MaxEpoch
            /\ patience \in 0..MaxPatience
       ELSE /\ disk = NoCheckpoint
            /\ max_epoch \in Len(valid_feed)..(Len(valid_feed) + 1)
            /\ patience = 3
    /\ save_interval \in 1..MaxInterval
    /\ state_dict = NoCheckpoint
    /\ last_epoch = -1
    /\ epoch = -1
    /\ best_validate = Inf
    /\ bad_epochs = 0
    /\ valid_perplexity = Inf
    /\ hist = <<>>
    /\ ran = <<>>
    /\ saves = <<>>

\* Lines 123-132: restore the checkpoint, reset the early-stopping state and
\* enter the epoch loop (or leave it at once when the range is empty).
LoadCheckpoint ==
    /\ pc = "load"
    /\ state_dict' = load_checkpoint(disk)
    /\ last_epoch' = LastEpochOf(state_dict')
    /\ bad_epochs' = 0
    /\ best_validate' = Inf
    /\ IF EpochRange(last_epoch', max_epoch) # {}
       THEN /\ epoch' = last_epoch' + 1
            /\ ran' = Append(ran, epoch')
            /\ pc' = "train"
            /\ state' = state
       ELSE /\ pc' = "exit"
            /\ state' = "MAX_EPOCH_REACHED"
            /\ UNCHANGED <<epoch, ran>>
    /\ UNCHANGED <<disk, max_epoch, patience, save_interval, valid_perplexity,
                   valid_feed, hist, saves>>
    /\ UNCHANGED <<trn_vars, sh_vars, df_vars>>

\* Lines 133-222: one epoch of training; it leaves the controller's state alone.
TrainEpoch ==
    /\ pc = "train"
    /\ pc' = "validate"
    /\ UNCHANGED <<state, disk, state_dict, max_epoch, patience, save_interval,
                   last_epoch, epoch, best_validate, bad_epochs,
                   valid_perplexity, valid_feed, hist, ran, saves>>
    /\ UNCHANGED <<trn_vars, sh_vars, df_vars>>

\* Line 225: valid_perplexity = validate(...)
Validate ==
    /\ pc = "validate"
    /\ \E p \in (IF Len(hist) < Len(valid_feed)
                 THEN {valid_feed[Len(hist) + 1]} ELSE Perplexities) :
          /\ valid_perplexity' = p
          /\ hist' = Append(hist, p)
    /\ pc' = "save"
    /\ UNCHANGED <<state, disk, state_dict, max_epoch, patience, save_interval,
                   last_epoch, epoch, best_validate, bad_epochs, valid_feed,
                   ran, saves>>
    /\ UNCHANGED <<trn_vars, sh_vars, df_vars>>

\* Lines 229-231: save a checkpoint when the interval divides the epoch.
SaveCheckpoint ==
    /\ pc = "save"
    /\ saves' = IF SaveDue(epoch, save_interval)
                THEN Append(saves, <<epoch, valid_perplexity>>)
                ELSE saves
    /\ pc' = "check"
    /\ UNCHANGED <<state, disk, state_dict, max_epoch, patience, save_interval,
                   last_epoch, epoch, best_validate, bad_epochs,
                   valid_perplexity, valid_feed, hist, ran>>
    /\ UNCHANGED <<trn_vars, sh_vars, df_vars>>

\* Lines 233-241 and the next turn of the for of line 132: the early-stopping
\* decision, then break, the next epoch, or the end of the range.
EarlyStopCheck ==
    /\ pc = "check"
    /\ IF Improved(valid_perplexity, best_validate)
       THEN /\ best_validate' = valid_perplexity
            /\ bad_epochs' = 0
       ELSE /\ bad_epochs' = bad_epochs + 1
            /\ best_validate' = best_validate
    /\ IF ShouldStop(bad_epochs', patience)
       THEN /\ pc' = "exit"
            /\ state' = "EARLY_STOPPED"
            /\ UNCHANGED <<epoch, ran>>
       ELSE IF epoch + 1 \in EpochRange(last_epoch, max_epoch)
            THEN /\ epoch' = epoch + 1
                 /\ ran' = Append(ran, epoch')
                 /\ pc' = "train"
                 /\ state' = state
            ELSE /\ pc' = "exit"
                 /\ state' = "MAX_EPOCH_REACHED"
                 /\ UNCHANGED <<epoch, ran>>
    /\ UNCHANGED <<disk, state_dict, max_epoch, patience, save_interval,
                   last_epoch, valid_perplexity, valid_feed, hist, saves>>
    /\ UNCHANGED <<trn_vars, sh_vars, df_vars>>

CtlNext ==
    \/ LoadCheckpoint
    \/ TrainEpoch
    \/ Validate
    \/ SaveCheckpoint
    \/ EarlyStopCheck

Spec == CtlInit /\ [][CtlNext]_vars

(***************************************************************************)
(* One epoch of training (main, lines 133-222) and one validation pass     *)
(* (validate, lines 244-291), batch by batch.  A batch is what the models  *)
(* and criteria make of it: n_seq sequences, num_tokens tokens, the summed *)
(* cross-entropies ce and ce_rev of the two directions, the regulariser    *)
(* terms d and d_rev, and the gradient norm the backward pass produces.    *)
(***************************************************************************)

\* --clip-norm, default 4.0
ClipNorm == 4

\* --lr, default 0.0003
LearningRate == Frac(3, 10000)

EmptyBatch == NoSample

\* What the loader can deliver: the empty batch, or a batch of n_seq
\* sequences with more tokens than sequences.

Batches ==
    {EmptyBatch} \cup
    [empty : {FALSE}, n_seq : 1..MaxSeqs, num_tokens : {MaxSeqs + 1},
     ce : {0, MaxCE}, ce_rev : {2}, d : {0, 1}, d_rev : {2},
     grad_norm : {ClipNorm - 1, ClipNorm + 1}]

ValidBatches == {b \in Batches : b.grad_norm <= ClipNorm}

\* len(sample) == 0
IsEmpty(b) == b.empty

\* optimizer = torch.optim.Adam(model.parameters(), args.lr)
OptimizerParams_both_models == {"model", "model_rev"}
OptimizerParams == {"model"}

\* torch.nn.utils.clip_grad_norm_(model.parameters(), args.clip_norm)
ClippedParams == {"model"}

\* Lines 197-199: criterion(output, tgt_tokens) / len(src_lengths) + d
\*              + criterion(output_rev, src_tokens) / len(tgt_lengths) + d_rev
TrainLoss(b) ==
    FAdd(FAdd(FAdd(FDiv(FracOf(b.ce), b.n_seq), FracOf(b.d)),
              FDiv(FracOf(b.ce_rev), b.n_seq)),
         FracOf(b.d_rev))

\* Lines 275-276: criterion(output, tgt_tokens) + d
\*              + criterion(output_rev, src_tokens) / len(tgt_lengths) + d_rev
ValidLoss(b) ==
    FAdd(FAdd(FAdd(FracOf(b.ce), FracOf(b.d)),
              FDiv(FracOf(b.ce_rev), b.n_seq)),
         FracOf(b.d_rev))

\* Lines 210-217: the statistics after a batch with loss l
UpdatedStats(st, b, l) ==
    LET total_loss == FSub(FSub(l, FracOf(b.d)), FracOf(b.d_rev))
    IN  [loss       |-> FAdd(st.loss,
                             FDiv(FMul(total_loss, b.n_seq), b.num_tokens)),
         lr         |-> FAdd(st.lr, LearningRate),
         num_tokens |-> FAdd(st.num_tokens, Frac(b.num_tokens, b.n_seq)),
         batch_size |-> FAdd(st.batch_size, FracOf(b.n_seq)),
         grad_norm  |-> FAdd(st.grad_norm, FracOf(b.grad_norm)),
         clip       |-> FAdd(st.clip,
                             FracOf(IF b.grad_norm > ClipNorm THEN 1 ELSE 0))]

\* Lines 221-222: value / len(progress_bar) for every statistic
EpochAverages(st, n) == [key \in DOMAIN st |-> FDiv(st[key], n)]

TrnInit ==
    /\ CtlIdle
    /\ ShIdle
    /\ DfIdle
    /\ tpc = "epoch"
    /\ rounds = 0
    /\ n_batches = 0
    /\ fetched = <<>>
    /\ sample = NoSample
    /\ loss = FracOf(0)
    /\ ops = <<>>
    /\ params = [model |-> 0, model_rev |-> 0]
    /\ grads = [model |-> "none", model_rev |-> "none"]
    /\ opt_steps = 0
    /\ nonempty = 0
    /\ stats = ZeroStats
    /\ logged = ZeroStats
    /\ vstats = ZeroValidStats
    /\ mode = "train"

\* Lines 132-147: a new epoch: the loader, train mode, fresh statistics.
StartEpoch ==
    /\ tpc = "epoch"
    /\ rounds < MaxRounds
    /\ rounds' = rounds + 1
    /\ n_batches' \in 1..MaxBatches
    /\ fetched' = <<>>
    /\ mode' = "train"
    /\ stats' = ZeroStats
    /\ tpc' = "fetch"
    /\ UNCHANGED <<sample, loss, ops, params, grads, opt_steps, nonempty,
                   logged, vstats>>
    /\ UNCHANGED <<ctl_vars, sh_vars, df_vars>>

\* Lines 150-155: the next batch; an empty one is skipped.
FetchBatch ==
    /\ tpc = "fetch"
    /\ Len(fetched) < n_batches
    /\ \E b \in Batches :
          /\ sample' = b
          /\ fetched' = Append(fetched, b)
          /\ tpc' = IF IsEmpty(b) THEN "fetch" ELSE "forward"
          /\ nonempty' = IF IsEmpty(b) THEN nonempty ELSE nonempty + 1
    /\ ops' = <<>>
    /\ UNCHANGED <<rounds, n_batches, loss, params, grads, opt_steps, stats,
                   logged, vstats, mode>>
    /\ UNCHANGED <<ctl_vars, sh_vars, df_vars>>

\* Lines 157-199: both models run, the regulariser, the combined loss.
ComputeLoss ==
    /\ tpc = "forward"
    /\ loss' = TrainLoss(sample)
    /\ ops' = Append(ops, "forward")
    /\ tpc' = "backward"
    /\ UNCHANGED <<rounds, n_batches, fetched, sample, params, grads,
                   opt_steps, nonempty, stats, logged, vstats, mode>>
    /\ UNCHANGED <<ctl_vars, sh_vars, df_vars>>

\* Line 200: loss.backward() leaves gradients on both models' parameters.
Backward ==
    /\ tpc = "backward"
    /\ grads' = [m \in DOMAIN grads |-> "raw"]
    /\ ops' = Append(ops, "backward")
    /\ tpc' = "clip"
    /\ UNCHANGED <<rounds, n_batches, fetched, sample, loss, params,
                   opt_steps, nonempty, stats, logged, vstats, mode>>
    /\ UNCHANGED <<ctl_vars, sh_vars, df_vars>>

\* Line 201: clip the forward model's gradients.
ClipGradNorm ==
    /\ tpc = "clip"
    /\ grads' = [m \in DOMAIN grads |->
                    IF m \in ClippedParams /\ grads[m] # "none"
                    THEN "clipped" ELSE grads[m]]
    /\ ops' = Append(ops, "clip")
    /\ tpc' = "step"
    /\ UNCHANGED <<rounds, n_batches, fetched, sample, loss, params,
                   opt_steps, nonempty, stats, logged, vstats, mode>>
    /\ UNCHANGED <<ctl_vars, sh_vars, df_vars>>

\* Line 206: optimizer.step() updates the parameters the optimizer holds.
OptimizerStep ==
    /\ tpc = "step"
    /\ params' = [m \in DOMAIN params |->
                     IF m \in OptimizerParams /\ grads[m] # "none"
                     THEN params[m] + 1 ELSE params[m]]
    /\ opt_steps' = opt_steps + 1
    /\ ops' = Append(ops, "step")
    /\ tpc' = "zero_grad"
    /\ UNCHANGED <<rounds, n_batches, fetched, sample, loss, grads, stats,
                   logged, vstats, mode, nonempty>>
    /\ UNCHANGED <<ctl_vars, sh_vars, df_vars>>

\* Line 207: optimizer.zero_grad() clears the gradients the optimizer holds.
ZeroGrad ==
    /\ tpc = "zero_grad"
    /\ grads' = [m \in DOMAIN grads |->
                    IF m \in OptimizerParams THEN "none" ELSE grads[m]]
    /\ ops' = Append(ops, "zero_grad")
    /\ tpc' = "stats"
    /\ UNCHANGED <<rounds, n_batches, fetched, sample, loss, params,
                   opt_steps, nonempty, stats, logged, vstats, mode>>
    /\ UNCHANGED <<ctl_vars, sh_vars, df_vars>>

\* Lines 210-219: the running statistics.
UpdateStats ==
    /\ tpc = "stats"
    /\ stats' = UpdatedStats(stats, sample, loss)
    /\ tpc' = "fetch"
    /\ UNCHANGED <<rounds, n_batches, fetched, sample, loss, ops, params,
                   grads, opt_steps, nonempty, logged, vstats, mode>>
    /\ UNCHANGED <<ctl_vars, sh_vars, df_vars>>

\* Lines 221-222: the loader is exhausted; log the epoch's averages.
LogEpoch ==
    /\ tpc = "fetch"
    /\ Len(fetched) = n_batches
    /\ logged' = EpochAverages(stats, n_batches)
    /\ tpc' = "validate"
    /\ UNCHANGED <<rounds, n_batches, fetched, sample, loss, ops, params,
                   grads, opt_steps, nonempty, stats, vstats, mode>>
    /\ UNCHANGED <<ctl_vars, sh_vars, df_vars>>

\* Lines 225 and 246-255: validate() starts: eval mode, fresh statistics.
\* main's stats, sample and loss are not read again before lines 139-145,
\* 150 and 197 assign them anew; the model forgets their values here, with
\* the logged line.
StartValidate ==
    /\ tpc = "validate"
    /\ mode' = "eval"
    /\ vstats' = ZeroValidStats
    /\ fetched' = <<>>
    /\ sample' = NoSample
    /\ loss' = FracOf(0)
    /\ ops' = <<>>
    /\ stats' = ZeroStats
    /\ logged' = ZeroStats
    /\ tpc' = "vfetch"
    /\ UNCHANGED <<rounds, n_batches, params, grads, opt_steps, nonempty>>
    /\ UNCHANGED <<ctl_vars, sh_vars, df_vars>>

\* Lines 258-262: the next validation batch; an empty one is skipped.
ValidFetch ==
    /\ tpc = "vfetch"
    /\ Len(fetched) < MaxValidBatches
    /\ \E b \in ValidBatches :
          /\ sample' = b
          /\ fetched' = Append(fetched, b)
          /\ tpc' = IF IsEmpty(b) THEN "vfetch" ELSE "vbatch"
    /\ UNCHANGED <<rounds, n_batches, loss, ops, params, grads, opt_steps, nonempty,
                   stats, logged, vstats, mode>>
    /\ UNCHANGED <<ctl_vars, sh_vars, df_vars>>

\* Lines 263-280: the batch's loss under no_grad, and the statistics.
ValidBatch ==
    /\ tpc = "vbatch"
    /\ loss' = ValidLoss(sample)
    /\ vstats' = [valid_loss |-> FAdd(vstats.valid_loss, loss'),
                  num_tokens |-> vstats.num_tokens + sample.num_tokens,
                  batch_size |-> vstats.batch_size + sample.n_seq]
    /\ tpc' = "vfetch"
    /\ UNCHANGED <<rounds, n_batches, fetched, sample, ops, params, grads,
                   opt_steps, nonempty, stats, logged, mode>>
    /\ UNCHANGED <<ctl_vars, sh_vars, df_vars>>

\* Lines 282-291: the loader is exhausted; valid_loss becomes
\* valid_loss / num_tokens, the logarithm of the perplexity, which raises
\* ZeroDivisionError when no token was seen.
EndValidate ==
    /\ tpc = "vfetch"
    /\ fetched # <<>>
    /\ IF vstats.num_tokens = 0
       THEN /\ tpc' = "crashed"
            /\ vstats' = vstats
       ELSE /\ vstats' = [vstats EXCEPT
                             !.valid_loss = FDiv(@, vstats.num_tokens)]
            /\ tpc' = "vreturn"
    /\ UNCHANGED <<rounds, n_batches, fetched, sample, loss, ops, params,
                   grads, opt_steps, nonempty, stats, logged, mode>>
    /\ UNCHANGED <<ctl_vars, sh_vars, df_vars>>

\* Lines 291 and 226-227: validate() returns and its locals are gone; back in
\* main both models are put in train mode.
ReturnPerplexity ==
    /\ tpc = "vreturn"
    /\ vstats' = ZeroValidStats
    /\ fetched' = <<>>
    /\ sample' = NoSample
    /\ loss' = FracOf(0)
    /\ mode' = "train"
    /\ tpc' = "epoch"
    /\ UNCHANGED <<rounds, n_batches, ops, params, grads, opt_steps, nonempty,
                   stats, logged>>
    /\ UNCHANGED <<ctl_vars, sh_vars, df_vars>>

TrnNext ==
    \/ StartEpoch
    \/ FetchBatch
    \/ ComputeLoss
    \/ Backward
    \/ ClipGradNorm
    \/ OptimizerStep
    \/ ZeroGrad
    \/ UpdateStats
    \/ LogEpoch
    \/ StartValidate
    \/ ValidFetch
    \/ ValidBatch
    \/ EndValidate
    \/ ReturnPerplexity

TrainerSpec == TrnInit /\ [][TrnNext]_vars

(***************************************************************************)
(* The reverse model's inputs: main, lines 161-165, and validate, lines    *)
(* 267-271.  A tensor [B, S] is a sequence of B rows of S tokens; indices  *)
(* start at 1 here and at 0 in the source.                                 *)
(***************************************************************************)

\* dst[1:S] = src[0:S-1] on one row
AssignTail(dst, src) ==
    [j \in 1..Len(dst) |-> IF j >= 2 THEN src[j - 1] ELSE dst[j]]

\* dst[0] = src[S-1] on one row
AssignHead(dst, src) ==
    [j \in 1..Len(dst) |-> IF j = 1 THEN src[Len(src)] ELSE dst[j]]

\* Lines 161-165 without the clones: src_inputs is sample['src_tokens']
\* itself and tgt_lengths is sample['src_lengths'] itself.
TrainerDerived_without_clone(b) ==
    LET S == Len(b.src_tokens[1])
        tail == AssignTail(b.src_tokens[1], b.src_tokens[1])
        row0 == AssignHead(tail, tail)
        inputs == [b.src_tokens EXCEPT ![1] = row0]
        lengths == [i \in 1..Len(b.src_lengths) |->
                       b.src_lengths[i] + (b.tgt_len - S)]
    IN  [batch |-> [b EXCEPT !.src_tokens = inputs, !.src_lengths = lengths],
         src_inputs |-> inputs,
         tgt_lengths |-> lengths]

\* Lines 161-165: the batch after them, src_inputs and tgt_lengths.
TrainerDerived(b) ==
    LET S == Len(b.src_tokens[1])
        clone == b.src_tokens
        tail == AssignTail(clone[1], b.src_tokens[1])
        row0 == AssignHead(tail, b.src_tokens[1])
        lengths == [i \in 1..Len(b.src_lengths) |->
                       b.src_lengths[i] + (b.tgt_len - S)]
    IN  [batch |-> b,
         src_inputs |-> [clone EXCEPT ![1] = row0],
         tgt_lengths |-> lengths]

\* Lines 267-271: the same derivation in validate.
ValidatorDerived(b) ==
    LET S == Len(b.src_tokens[1])
        clone == b.src_tokens
        tail == AssignTail(clone[1], b.src_tokens[1])
        row0 == AssignHead(tail, b.src_tokens[1])
        lengths == [i \in 1..Len(b.src_lengths) |->
                       b.src_lengths[i] + (b.tgt_len - S)]
    IN  [batch |-> b,
         src_inputs |-> [clone EXCEPT ![1] = row0],
         tgt_lengths |-> lengths]

\* The rows a batch can hold below row 0: two fixed patterns of tokens.
LowerRows(S) ==
    {[j \in 1..S |-> ((j - 1) % MaxTok) + 1],
     [j \in 1..S |-> ((S - j) % MaxTok) + 1]}

\* The batches with B rows of S tokens.
BatchesOfShape(B, S) ==
    {[src_tokens |-> [i \in 1..B |-> IF i = 1 THEN r0 ELSE lower[i]],
      src_lengths |-> lens,
      tgt_len |-> T] :
        r0 \in [1..S -> 1..MaxTok],
        lower \in [1..B -> LowerRows(S)],
        lens \in [1..B -> {k \in {S - 1, S} : k >= 1}],
        T \in 1..MaxT}

ShInit ==
    /\ CtlIdle
    /\ TrnIdle
    /\ DfIdle
    /\ sh_pc = "batch"
    /\ \E B \in 1..MaxB, S \in 1..MaxS : batch \in BatchesOfShape(B, S)
    /\ batch_before = batch
    /\ src_inputs = <<>>
    /\ tgt_lengths = <<>>

\* main derives the reverse model's inputs from the batch.
TrainerDerive ==
    /\ sh_pc = "batch"
    /\ LET r == TrainerDerived(batch)
       IN  /\ batch' = r.batch
           /\ src_inputs' = r.src_inputs
           /\ tgt_lengths' = r.tgt_lengths
    /\ sh_pc' = "trained"
    /\ UNCHANGED batch_before
    /\ UNCHANGED <<ctl_vars, trn_vars, df_vars>>

\* validate derives them from the batch.
ValidatorDerive ==
    /\ sh_pc = "batch"
    /\ LET r == ValidatorDerived(batch)
       IN  /\ batch' = r.batch
           /\ src_inputs' = r.src_inputs
           /\ tgt_lengths' = r.tgt_lengths
    /\ sh_pc' = "validated"
    /\ UNCHANGED batch_before
    /\ UNCHANGED <<ctl_vars, trn_vars, df_vars>>

ShNext ==
    \/ TrainerDerive
    \/ ValidatorDerive

ShiftSpec == ShInit /\ [][ShNext]_vars

\* How often token t occurs in row.
Occurrences(row, t) == Cardinality({j \in 1..Len(row) : row[j] = t})

\* C5: row 0 of src_inputs is row 0 of src_tokens shifted right by one
\* position cyclically, every row is a permutation of the original row,
\* rows 1..B-1 are unchanged, the batch's src_tokens and src_lengths are not
\* mutated, tgt_lengths[i] = src_lengths[i] + (tgt_input_len - S), and the
\* trainer and the validator derive the same values.
C5_ShiftAdapter ==
    sh_pc \in {"trained", "validated"} =>
        LET old == batch_before.src_tokens
            B == Len(old)
            S == Len(old[1])
        IN  /\ Len(src_inputs) = B
            /\ \A i \in 1..B : Len(src_inputs[i]) = S
            /\ src_inputs[1][1] = old[1][S]
            /\ \A j \in 2..S : src_inputs[1][j] = old[1][j - 1]
            /\ \A i \in 1..B : \A t \in 1..MaxTok :
                  Occurrences(src_inputs[i], t) = Occurrences(old[i], t)
            /\ \A i \in 2..B : src_inputs[i] = old[i]
            /\ batch = batch_before
            /\ Len(tgt_lengths) = B
            /\ \A i \in 1..B :
                  tgt_lengths[i] =
                      batch_before.src_lengths[i] + (batch_before.tgt_len - S)
            /\ TrainerDerived(batch_before).src_inputs = src_inputs
            /\ ValidatorDerived(batch_before).src_inputs = src_inputs
            /\ TrainerDerived(batch_before).tgt_lengths = tgt_lengths
            /\ ValidatorDerived(batch_before).tgt_lengths = tgt_lengths

C5_Witness ==
    /\ sh_pc = "trained"
    /\ Len(batch_before.src_tokens) = 2
    /\ batch_before.src_tokens[1] = <<1, 1, 2>>
    /\ src_inputs[1] = <<2, 1, 1>>
    /\ src_inputs[2] = batch_before.src_tokens[2]
    /\ batch_before.tgt_len = 1
    /\ batch_before.src_lengths = <<3, 2>>
    /\ tgt_lengths = <<1, 0>>

(***************************************************************************)
(* The regulariser's normalisation: calculate_diff of get_diff, lines      *)
(* 58-65.  A tensor [B, n, H] is a sequence of B sequences of n sequences  *)
(* of H integers.  A float that may be inf or nan is a record              *)
(* [kind, val]: "num" with the fraction val, "inf" or "nan".               *)
(***************************************************************************)

Abs(x) == IF x < 0 THEN -x ELSE x

Min(a, b) == IF a < b THEN a ELSE b

RECURSIVE SumSeq(_)
SumSeq(xs) == IF xs = <<>> THEN 0 ELSE xs[1] + SumSeq(Tail(xs))

\* len(t): the size of the first dimension
TensorLen(t) == Len(t)

\* torch.bmm(acontext, src_out_other.transpose(1, 2)): [B, n, m]
PairwiseProducts(a, o) ==
    [b \in 1..Len(a) |->
        [i \in 1..Len(a[b]) |->
            [j \in 1..Len(o[b]) |->
                SumSeq([h \in 1..Len(a[b][i]) |-> a[b][i][h] * o[b][j][h]])]]]

\* torch.diagonal(diff, dim1=1, dim2=2): [B, min(n, m)]
Diagonal(t) ==
    [b \in 1..Len(t) |->
        [k \in 1..Min(Len(t[b]), Len(t[b][1])) |-> t[b][k][k]]]

\* diff.view(-1): the B*n*m entries in one dimension
Flatten(t) ==
    LET n == Len(t[1])
        m == Len(t[1][1])
    IN  [q \in 1..(Len(t) * n * m) |->
            t[((q - 1) \div (n * m)) + 1]
             [(((q - 1) % (n * m)) \div m) + 1]
             [((q - 1) % m) + 1]]

\* torch.norm(t, p=1) of a tensor of one dimension
Norm1of1(xs) == SumSeq([q \in 1..Len(xs) |-> Abs(xs[q])])

\* torch.norm(t, p=1) of a tensor of two dimensions
Norm1of2(t) == SumSeq([b \in 1..Len(t) |-> Norm1of1(t[b])])

Num(x) == [kind |-> "num", val |-> x]

\* x / y on floats, for x >= 0 and y >= 0 fractions: inf or nan when y is 0
FloatDiv(x, y) ==
    IF y[1] = 0
    THEN (IF x[1] = 0 THEN [kind |-> "nan", val |-> FracOf(0)]
          ELSE [kind |-> "inf", val |-> FracOf(0)])
    ELSE Num(Frac(x[1] * y[2], x[2] * y[1]))

\* Lines 59-65.
calculate_diff(a, o) ==
    LET diff == PairwiseProducts(a, o)
        diag == Diagonal(diff)
        numerator == Frac(Norm1of2(diag), TensorLen(diag))
        flat == Flatten(diff)
        den_sum == Norm1of1(flat) - Norm1of2(diag)
        den_len == TensorLen(flat) - TensorLen(diag)
        denominator == FloatDiv(FracOf(den_sum), FracOf(den_len))
    IN  [numerator |-> numerator,
         numerator_len |-> TensorLen(diag),
         denominator_sum |-> den_sum,
         denominator_len |-> den_len,
         d |-> IF denominator.kind = "num"
               THEN FloatDiv(numerator, denominator.val)
               ELSE [kind |-> "nan", val |-> FracOf(0)]]

\* The tensors [B, n, H] of entries -1, 0 and 1.
Tensors(B, n, H) == [1..B -> [1..n -> [1..H -> {-1, 0, 1}]]]

DfInit ==
    /\ CtlIdle
    /\ TrnIdle
    /\ ShIdle
    /\ df_pc = "args"
    /\ \E B \in 1..MaxDiffB, n \in 1..MaxN, m \in 1..MaxM, H \in 1..MaxH :
          /\ acontext \in Tensors(B, n, H)
          /\ src_out_other \in Tensors(B, m, H)
    /\ result = NoResult

\* Lines 71-72: d = calculate_diff(acontext, src_out_other)
CalculateDiff ==
    /\ df_pc = "args"
    /\ result' = calculate_diff(acontext, src_out_other)
    /\ df_pc' = "returned"
    /\ UNCHANGED <<acontext, src_out_other>>
    /\ UNCHANGED <<ctl_vars, trn_vars, sh_vars>>

DfNext == CalculateDiff

DiffSpec == DfInit /\ [][DfNext]_vars

\* The sum of |M[b][i][j]| over the entries of M picked by keep(i, j).
AbsSumWhere(M, keep(_, _)) ==
    LET cells == {<<b, i, j>> \in
                     (1..Len(M)) \X (1..Len(M[1])) \X (1..Len(M[1][1])) :
                     keep(i, j)}
        RECURSIVE Total(_)
        Total(cs) ==
            IF cs = {} THEN 0
            ELSE LET c == CHOOSE c \in cs : TRUE
                 IN  Abs(M[c[1]][c[2]][c[3]]) + Total(cs \ {c})
    IN  Total(cells)

\* C9: the numerator is divided by the number of diagonal entries,
\* B*min(n, m), and the denominator by the number of off-diagonal entries,
\* B*n*m - B*min(n, m): they are the mean absolute values of the diagonal
\* and of the off-diagonal entries, and the ratio is non-negative whenever
\* the denominator is not zero.
C9_NormalisationCounts ==
    df_pc = "returned" =>
        LET M == PairwiseProducts(acontext, src_out_other)
            B == Len(M)
            n == Len(M[1])
            m == Len(M[1][1])
            on == B * Min(n, m)
            off == B * n * m - on
        IN  /\ result.numerator_len = on
            /\ result.denominator_len = off
            /\ result.numerator =
                  Frac(AbsSumWhere(M, LAMBDA i, j : i = j), on)
            /\ result.denominator_sum = AbsSumWhere(M, LAMBDA i, j : i # j)
            /\ (off > 0 /\ result.denominator_sum > 0) =>
                  /\ result.d.kind = "num"
                  /\ result.d.val[1] >= 0
                  /\ result.d.val[2] > 0

(***************************************************************************)
(* Properties of the epoch trainer and the validator.                      *)
(***************************************************************************)

\* The batches of seq that are not empty.
WithoutEmpty(seq) == SelectSeq(seq, LAMBDA b : ~IsEmpty(b))

\* The trainer's statistics after the non-empty batches of seq.
RECURSIVE StatsOver(_)
StatsOver(seq) ==
    IF seq = <<>> THEN ZeroStats
    ELSE LET b == seq[Len(seq)]
         IN  UpdatedStats(StatsOver(SubSeq(seq, 1, Len(seq) - 1)), b,
                          TrainLoss(b))

\* The sum over the non-empty batches of seq of the loss of step 6 of the
\* trainer: CE/num_sequences + d + CE_rev/num_sequences_rev + d_rev.
RECURSIVE SumOfTrainerLoss(_)
SumOfTrainerLoss(seq) ==
    IF seq = <<>> THEN FracOf(0)
    ELSE LET b == seq[Len(seq)]
             rest == SumOfTrainerLoss(SubSeq(seq, 1, Len(seq) - 1))
         IN  IF IsEmpty(b) THEN rest
             ELSE FAdd(rest,
                       FAdd(FAdd(FAdd(Frac(b.ce, b.n_seq), FracOf(b.d)),
                                 Frac(b.ce_rev, b.n_seq)),
                            FracOf(b.d_rev)))

\* C6: the validator's loss of a batch is the trainer's loss of step 6 for
\* the same model outputs (both cross-entropies divided by the number of
\* sequences), and the sum of these is what is divided by the token count.
C6_ValidLossAsTrainer ==
    /\ (tpc = "vfetch" /\ fetched # <<>>) =>
          /\ ~IsEmpty(sample) => loss = SumOfTrainerLoss(<<sample>>)
          /\ vstats.valid_loss = SumOfTrainerLoss(fetched)
    /\ tpc = "vreturn" =>
          vstats.valid_loss =
              FDiv(SumOfTrainerLoss(fetched), vstats.num_tokens)

\* C7: an empty batch leaves every accumulator as it was, runs no model and
\* takes no optimizer step, the epoch goes on, and the averages logged at
\* the end of the epoch are those of the same epoch without the empty
\* batches.
C7_EmptyBatchNoEffect ==
    /\ (tpc = "fetch" /\ fetched # <<>> /\ IsEmpty(sample)) =>
          /\ stats = StatsOver(WithoutEmpty(fetched))
          /\ ops = <<>>
          /\ opt_steps = nonempty
    /\ (tpc = "validate" /\ WithoutEmpty(fetched) # <<>>) =>
          logged = EpochAverages(StatsOver(WithoutEmpty(fetched)),
                                 Len(WithoutEmpty(fetched)))

\* C10: the reverse model's parameters never change; the forward model's
\* change only at the optimizer step, taken exactly once per non-empty
\* training batch, after the one backward pass and the clipping and before
\* the gradients are cleared; validation changes no parameters.
C10_OnlyForwardModelTrained ==
    /\ [][params'.model_rev = params.model_rev]_vars
    /\ [][(params'.model # params.model \/ opt_steps' # opt_steps) =>
             /\ tpc = "step"
             /\ ops = <<"forward", "backward", "clip">>
             /\ grads.model = "clipped"
             /\ opt_steps' = opt_steps + 1
             /\ params'.model = params.model + 1]_vars
    /\ [](tpc = "stats" =>
             /\ ops = <<"forward", "backward", "clip", "step", "zero_grad">>
             /\ grads.model = "none")
    /\ [](opt_steps = nonempty -
             (IF tpc \in {"forward", "backward", "clip", "step"}
              THEN 1 ELSE 0))
    /\ [](params.model = opt_steps)
    /\ [][(tpc \in {"validate", "vfetch", "vbatch", "vreturn"}) =>
             (params' = params /\ opt_steps' = opt_steps)]_vars

C10_Witness ==
    /\ tpc = "vbatch"
    /\ rounds = 2
    /\ params.model = 3
    /\ params.model_rev = 0
    /\ nonempty = 3
    /\ grads.model_rev = "raw"
    /\ mode = "eval"

(***************************************************************************)
(* Properties of the training controller.                                  *)
(***************************************************************************)

\* The early-stopping decision has been taken for every perplexity in hist.
EpochsDecided == pc \in {"train", "exit"}

\* The run of the early-stopping scenario: fresh start, patience 3,
\* max_epoch >= 6, the validator returning 5.0, 4.0, 4.2, 4.3, 4.4, 4.5.
ScenarioRun ==
    /\ valid_feed = ScenarioPerplexities
    /\ ~state_dict.present
    /\ patience = 3
    /\ max_epoch >= 6

\* C1, as stated: in the scenario the controller halts exactly after the 6th
\* epoch has completed, not earlier and not later, with best_validate = 4.0.
C1_HaltsAfterSixthEpoch ==
    ScenarioRun =>
        /\ Len(ran) <= 6
        /\ state # "RUNNING" => (Len(hist) = 6 /\ best_validate = 40)

\* C1, amended: in the scenario the controller halts exactly after the 5th
\* epoch has completed (the third consecutive non-improvement, 4.4), early
\* stopped, with best_validate = 4.0; the 6th epoch never starts.
C1_HaltsAfterFifthEpoch ==
    ScenarioRun =>
        /\ Len(ran) <= 5
        /\ state # "RUNNING" =>
              /\ state = "EARLY_STOPPED"
              /\ Len(hist) = 5
              /\ ran = <<0, 1, 2, 3, 4>>
              /\ best_validate = 40
        /\ (pc = "train" /\ Len(hist) = 4) => bad_epochs = 2

C1_Witness ==
    /\ ScenarioRun
    /\ state = "EARLY_STOPPED"
    /\ hist = <<50, 40, 42, 43, 44>>
    /\ bad_epochs = 3

\* C2: after a restore from a checkpoint saved at epoch e with best metric m,
\* last_epoch = e, the first epoch run is e + 1, and a first perplexity
\* p >= m counts as a non-improving epoch (bad_epochs = 1) that leaves
\* best_validate = m.
C2_RestoreRoundTrip ==
    (pc # "load" /\ state_dict.present) =>
        /\ last_epoch = state_dict.last_epoch
        /\ ran # <<>> => ran[1] = state_dict.last_epoch + 1
        /\ (EpochsDecided /\ Len(hist) = 1 /\ hist[1] >= state_dict.best) =>
              /\ bad_epochs = 1
              /\ best_validate = state_dict.best

\* The least perplexity of h (inf when there is none).
MinSoFar(h) ==
    CHOOSE m \in {h[k] : k \in 1..Len(h)} \cup {Inf} :
        \A k \in 1..Len(h) : m <= h[k]

\* The most recent epoch of h whose perplexity was strictly below every
\* earlier one and below the initial inf (0 when there is none).
LastNewBest(h) ==
    LET news == {k \in 1..Len(h) :
                    /\ h[k] < Inf
                    /\ \A j \in 1..(k - 1) : h[k] < h[j]}
    IN  IF news = {} THEN 0 ELSE CHOOSE k \in news : \A j \in news : j <= k

\* C3: after every completed epoch best_validate is the minimum perplexity
\* returned so far in this run, and bad_epochs is the number of epochs
\* completed since the most recent strict improvement (0 right after a new
\* best; a perplexity equal to best_validate is a non-improvement).
C3_TrainingState ==
    EpochsDecided =>
        /\ best_validate = MinSoFar(hist)
        /\ bad_epochs = Len(hist) - LastNewBest(hist)

C3_Witness ==
    /\ EpochsDecided
    /\ Len(hist) = 3
    /\ hist[1] = hist[2]
    /\ hist[3] < hist[2]
    /\ bad_epochs = 0
    /\ best_validate = hist[3]

\* max(0, max_epoch - last_epoch - 1)
EpochBudget ==
    IF max_epoch - last_epoch - 1 > 0 THEN max_epoch - last_epoch - 1 ELSE 0

\* The parts of C4 that do not speak of RUNNING: at most EpochBudget epochs,
\* numbered last_epoch+1, last_epoch+2, ... with none repeated or skipped;
\* the loop stops after epoch e exactly when bad_epochs >= patience
\* (EARLY_STOPPED) or e = max_epoch - 1 (MAX_EPOCH_REACHED); and it never
\* blocks before it has stopped.
C4_Loop ==
    /\ Len(ran) <= EpochBudget
    /\ \A k \in 1..Len(ran) : ran[k] = last_epoch + k
    /\ ran = <<>> => (state = "MAX_EPOCH_REACHED" /\ EpochBudget = 0)
    /\ (pc = "exit" /\ ran # <<>>) =>
          /\ state = "EARLY_STOPPED" <=> bad_epochs >= patience
          /\ state = "MAX_EPOCH_REACHED" <=>
                (bad_epochs < patience /\ epoch = max_epoch - 1)
    /\ (pc # "exit" /\ Len(ran) >= 2) =>
          /\ bad_epochs < patience
          /\ ran[Len(ran) - 1] # max_epoch - 1
    /\ pc = "exit" <=> state # "RUNNING"
    /\ pc # "exit" => ENABLED CtlNext

\* C4, as stated: the loop terminates as C4_Loop says, for every
\* patience >= 0, and bad_epochs < patience whenever the controller is
\* RUNNING.
C4_Termination ==
    pc # "load" =>
        /\ C4_Loop
        /\ state = "RUNNING" => bad_epochs < patience

\* C4, amended: the loop terminates as C4_Loop says, and while the
\* controller is RUNNING bad_epochs < patience holds, except that with
\* patience = 0 bad_epochs is 0 = patience during the first epoch, until its
\* early-stopping decision (which then stops the controller).
C4_TerminationAmended ==
    pc # "load" =>
        /\ C4_Loop
        /\ state = "RUNNING" =>
              \/ bad_epochs < patience
              \/ patience = 0 /\ bad_epochs = 0 /\ Len(ran) = 1

C4_Witness ==
    /\ state = "EARLY_STOPPED"
    /\ state_dict.present
    /\ ran = <<last_epoch + 1, last_epoch + 2>>
    /\ epoch < max_epoch - 1
    /\ bad_epochs = patience

\* The calls of save_checkpoint made for epoch e.
SavesOf(e) == {i \in 1..Len(saves) : saves[i][1] = e}

C8_SavedOncePerDueEpoch ==
    \A k \in 1..Len(ran) :
        LET e == ran[k]
            past_save == k < Len(ran) \/ pc \in {"check", "exit"}
        IN  IF past_save /\ e % save_interval = 0
            THEN /\ Cardinality(SavesOf(e)) = 1
                 /\ \A i \in SavesOf(e) : saves[i] = <<e, hist[k]>>
            ELSE SavesOf(e) = {}

\* C8: every completed epoch e is checkpointed exactly once when
\* save_interval divides e and not at all otherwise, with e and that epoch's
\* validation perplexity; the save comes after validation and before the
\* early-stopping decision (so the epoch that stops the run is saved too),
\* and it changes neither best_validate nor bad_epochs.
C8_CheckpointPerEpoch ==
    /\ [](C8_SavedOncePerDueEpoch /\ Len(saves) <= Len(hist))
    /\ [][pc = "save" =>
             /\ pc' = "check"
             /\ best_validate' = best_validate
             /\ bad_epochs' = bad_epochs]_vars
    /\ [][saves' # saves => (pc = "save" /\ Len(hist) = Len(ran))]_vars

C8_Witness ==
    /\ state = "EARLY_STOPPED"
    /\ save_interval = 2
    /\ ran = <<0, 1, 2>>
    /\ Len(saves) = 2
    /\ saves[2] = <<epoch, valid_perplexity>>

====
